---- MODULE Spec2Model ----
(***************************************************************************)
(* Model of restless-rabbit (src/main/main.c): the resumable PIN guessing  *)
(* loop of app_main, the attempt log (write_line / read_last_passcode),    *)
(* the keystroke emission of send_passcode and the lockout pacing.         *)
(***************************************************************************)
EXTENDS Integers, Sequences, FiniteSets, TLC

VARIABLES
    \* ---- SD card contents (survive a power loss) ----
    dict,                   \* PIN4.TXT: the decimal tokens, in file order
    dict_nl,                \* TRUE iff the last token is followed by a line terminator
    dict_exists,            \* PIN4.TXT is present on the card
    logf,                   \* pin.log: the lines written so far, each <<d3,d2,d1,d0>>
    log_exists,             \* pin.log is present on the card
    \* ---- build-time setting ----
    attempt_limit_no_timeouts,
    \* ---- app_main locals and the pinlist stream ----
    pc,                     \* position of app_main
    starting_passcode,
    passcode,
    num_passcodes_tried,
    pos,                    \* tokens of pinlist consumed so far
    eof,                    \* feof(pinlist)
    attempts,
    consecutive_attempts,
    timeout_seconds,
    \* ---- send_passcode locals ----
    digits,                 \* digits[0..3], least significant first
    kstep,                  \* HID reports issued so far by this send_passcode call
    write_ok,               \* what the last write_line returned (ESP_OK = TRUE)
    report_ok,              \* what the last tud_hid_keyboard_report returned
    \* ---- outputs ----
    led,                    \* level of LED_GPIO
    blink,                  \* loop counter i of the completion signal
    sleep_ms,               \* argument of the pending vTaskDelay of the pacer
    events,                 \* HID keyboard reports issued since power-up (0 = release)
    \* ---- observation of the run ----
    sent,                   \* arguments of the send_passcode calls since power-up
    boot_len,               \* number of log lines at power-up
    run,                    \* number of power losses so far
    completed,              \* attempts completed since power-up
    cooldown_ms,            \* milliseconds of the last full cooldown
    prev_cooldown_ms,       \* milliseconds of the full cooldown before it
    delay,                  \* the delay the pacer chose last: "grace", "timeout", "double"
    burst,                  \* attempts since the last full timeout was entered
    last_burst,             \* attempts that the last full timeout closed
    polled_ready            \* tud_mounted() returned true since the last pacer delay ended

card == <<dict, dict_nl, dict_exists, logf, log_exists>>
locals == <<starting_passcode, passcode, num_passcodes_tried, pos, eof,
            attempts, consecutive_attempts, timeout_seconds>>
sendst == <<digits, kstep, write_ok, report_ok>>
outs == <<led, blink, sleep_ms, events>>
obs == <<sent, boot_len, run, completed, cooldown_ms, prev_cooldown_ms,
         delay, burst, last_burst, polled_ready>>
vars == <<card, attempt_limit_no_timeouts, pc, locals, sendst, outs, obs>>

----------------------------------------------------------------------------
\* Bounds of the exploration
MaxCandidate == 2
MaxDictLen == 2
MaxInitLog == 1
MaxRestarts == 1
MaxFastPath == 2
MaxTried == 4
MaxPacerAttempts == 4450
MaxPacerFastPath == 3

\* Program constants
attempt_limit_timeout_doubled == 200
leeway_secs == 5
base_timeout == 960
passcode_len == 4
HID_KEY_Z == 29
HID_KEY_0 == 39
HID_KEY_ENTER == 40
HID_KEY_NONE == 0
INT_MAX == 2147483647
INT_MIN == -2147483647 - 1

----------------------------------------------------------------------------
\* Helpers

Last(s) == s[Len(s)]

SeqsUpTo(S, n) == UNION {[1..k -> S] : k \in 0..n}

\* 32-bit two's complement value of x * k for 0 < k < 32768, computed on
\* 16-bit halves so that no intermediate leaves the 32-bit range.
Wrap32Mul(x, k) ==
    LET xl == x % 65536
        xh == (x \div 65536) % 65536
        lo_full == xl * k
        lo == lo_full % 65536
        hi == (xh * k + (lo_full \div 65536)) % 65536
    IN  IF hi >= 32768 THEN (hi - 65536) * 65536 + lo ELSE hi * 65536 + lo

\* x * k is representable in a 32-bit signed int (0 < k)
MulFits(x, k) ==
    IF x >= 0 THEN x <= INT_MAX \div k
    ELSE (-(x + 1)) <= (INT_MAX - (k - 1)) \div k

\* What a signed 32-bit multiplication x * k leaves behind.  Signed overflow
\* is undefined: the build either keeps the wrapped 32-bit product or, when
\* it traps overflow, aborts the program.
IntMul(x, k) ==
    IF MulFits(x, k) THEN {[trap |-> FALSE, value |-> x * k]}
    ELSE {[trap |-> FALSE, value |-> Wrap32Mul(x, k)], [trap |-> TRUE, value |-> 0]}

----------------------------------------------------------------------------
\* send_passcode: decimal digits, log line, key codes

\* The loop "while (passcode > 0)" that fills digits[], least significant
\* digit first; digits[] starts zeroed.
RECURSIVE DigitsLoop(_, _, _)
DigitsLoop(p, i, d) ==
    IF p > 0 THEN DigitsLoop(p \div 10, i + 1, [d EXCEPT ![i] = p % 10])
    ELSE d

PasscodeDigits(p) == DigitsLoop(p, 0, [i \in 0..(passcode_len - 1) |-> 0])

\* C11 mutant: the line with the digits in the order the loop produced them
LogLine_LeastFirst(d) == <<d[0], d[1], d[2], d[3]>>

\* sprintf(pincode_str, "%d%d%d%d\n", digits[3], digits[2], digits[1], digits[0])
LogLine(d) == <<d[3], d[2], d[1], d[0]>>

\* C7 mutant: the key of a digit without the case of digit 0
KeyCode_NoZeroCase(d) == HID_KEY_Z + d

\* keycode[0] for one digit
KeyCode(d) == IF d = 0 THEN HID_KEY_0 ELSE HID_KEY_Z + d

\* The k-th (0-based) keyboard report of send_passcode: a press and a
\* release per digit, most significant digit first, then ENTER.
ReportAt(d, k) ==
    IF k % 2 = 1 THEN HID_KEY_NONE
    ELSE IF k < 2 * passcode_len THEN KeyCode(d[(passcode_len - 1) - (k \div 2)])
    ELSE HID_KEY_ENTER

ReportsPerPasscode == 2 * passcode_len + 2

----------------------------------------------------------------------------
\* read_last_passcode and fscanf

\* fscanf(f, "%d") on one log line: the decimal value of its digits
RECURSIVE ScanInt(_, _, _)
ScanInt(line, i, acc) ==
    IF i > Len(line) THEN acc ELSE ScanInt(line, i + 1, acc * 10 + line[i])

\* while (!feof(f)) fscanf(f, "%d", passcode): every line overwrites
\* *passcode; the fscanf that meets the end of the file leaves it alone.
RECURSIVE ReadLoop(_, _, _)
ReadLoop(lines, i, val) ==
    IF i > Len(lines) THEN val
    ELSE ReadLoop(lines, i + 1, ScanInt(lines[i], 1, 0))

\* read_last_passcode(&p) with p holding `before`: fopen fails when pin.log
\* is absent and *passcode is then left untouched.
ReadLastPasscode(before) ==
    IF ~log_exists THEN before ELSE ReadLoop(logf, 1, before)

\* fscanf(pinlist, "%d", &passcode) with `p` tokens consumed so far: the
\* value left in passcode, the new cursor and the new end-of-file flag.  The
\* flag is raised when the stream end is met: while looking for a token, or
\* right behind the digits of a last token that has no terminator.
FscanfPinlist(p, old) ==
    IF p < Len(dict)
    THEN [value |-> dict[p + 1], pos |-> p + 1,
          eof |-> (p + 1 = Len(dict) /\ ~dict_nl)]
    ELSE [value |-> old, pos |-> p, eof |-> TRUE]

----------------------------------------------------------------------------
\* Pacing (app_main, after each send_passcode)

\* C14 mutant: the grace delay also for the attempt that reaches the limit
PacerBranch_GraceAtLimit(a, c, limit) ==
    IF a + 1 = attempt_limit_timeout_doubled THEN "double"
    ELSE IF c + 1 <= limit THEN "grace"
    ELSE "timeout"

\* The counters after one more attempt and the branch taken:
\* "double" (timeout doubled, then full timeout), "grace" or "timeout".
PacerBranch(a, c, limit) ==
    IF a + 1 = attempt_limit_timeout_doubled THEN "double"
    ELSE IF c + 1 < limit THEN "grace"
    ELSE "timeout"

PacerAttempts(a) == IF a + 1 = attempt_limit_timeout_doubled THEN 0 ELSE a + 1

\* The outcomes of the pacing of one attempt with timeout_seconds = t:
\* timeout_seconds *= 2 on "double", and the argument timeout_seconds * 1000
\* of the delay unless the grace delay of 1000 ms is taken.
PacerOutcomes(t, branch) ==
    LET doubled == IF branch = "double" THEN IntMul(t, 2)
                   ELSE {[trap |-> FALSE, value |-> t]}
    IN  UNION {
          IF d.trap THEN {[trap |-> TRUE, timeout |-> t, ms |-> 0]}
          ELSE IF branch = "grace"
               THEN {[trap |-> FALSE, timeout |-> d.value, ms |-> 1000]}
               ELSE {[trap |-> m.trap, timeout |-> d.value, ms |-> m.value] :
                        m \in IntMul(d.value, 1000)}
          : d \in doubled}

\* The pacer's part of one loop pass (attempts++ up to the vTaskDelay being
\* entered) for outcome o of its arithmetic
Pace(branch, o) ==
    /\ attempts' = PacerAttempts(attempts)
    /\ timeout_seconds' = o.timeout
    /\ completed' = completed + 1
    /\ sleep_ms' = o.ms
    /\ IF branch = "grace" \/ o.trap
       THEN UNCHANGED <<cooldown_ms, prev_cooldown_ms>>
       ELSE /\ cooldown_ms' = o.ms
            /\ prev_cooldown_ms' = cooldown_ms
    /\ delay' = IF o.trap THEN "abort" ELSE branch
    /\ burst' = IF branch = "grace" THEN burst + 1 ELSE 0
    /\ last_burst' = IF branch = "grace" THEN last_burst ELSE burst + 1

----------------------------------------------------------------------------
\* Initial states: the card as found at the first power-up

Candidates == 0..MaxCandidate

InitLines == {LogLine(PasscodeDigits(c)) : c \in Candidates}

\* Values of app_main's state at power-up (locals not yet assigned read 0)
PowerUp ==
    /\ starting_passcode = 0
    /\ passcode = 0
    /\ num_passcodes_tried = 0
    /\ pos = 0
    /\ eof = FALSE
    /\ attempts = 0
    /\ consecutive_attempts = 0
    /\ timeout_seconds = base_timeout + leeway_secs
    /\ digits = [i \in 0..(passcode_len - 1) |-> 0]
    /\ kstep = 0
    /\ write_ok = TRUE
    /\ report_ok = TRUE
    /\ led = 1
    /\ blink = 0
    /\ sleep_ms = 0
    /\ events = <<>>
    /\ sent = <<>>
    /\ completed = 0
    /\ cooldown_ms = 0
    /\ prev_cooldown_ms = 0
    /\ delay = "none"
    /\ burst = 0
    /\ last_burst = 0
    /\ polled_ready = FALSE

Init ==
    /\ dict_exists \in BOOLEAN
    /\ dict \in SeqsUpTo(Candidates, MaxDictLen)
    /\ dict_nl \in BOOLEAN
    /\ (dict = <<>> => ~dict_nl)
    /\ (~dict_exists => dict = <<>>)
    /\ logf \in SeqsUpTo(InitLines, MaxInitLog)
    /\ log_exists \in BOOLEAN
    /\ (logf # <<>> => log_exists)
    /\ attempt_limit_no_timeouts \in 1..MaxFastPath
    /\ boot_len = Len(logf)
    /\ run = 0
    /\ pc = "boot"
    /\ PowerUp

----------------------------------------------------------------------------
\* app_main, step by step

\* read_last_passcode(&starting_passcode)
BootReadLog ==
    /\ pc = "boot"
    /\ starting_passcode' = ReadLastPasscode(0)
    /\ pc' = "open"
    /\ UNCHANGED <<card, attempt_limit_no_timeouts, passcode, num_passcodes_tried,
                   pos, eof, attempts, consecutive_attempts, timeout_seconds,
                   sendst, outs, obs>>

\* fopen(PIN4.TXT): app_main returns when the dictionary cannot be opened
OpenPinlist ==
    /\ pc = "open"
    /\ pc' = IF dict_exists THEN "scan" ELSE "returned"
    /\ UNCHANGED <<card, attempt_limit_no_timeouts, locals, sendst, outs, obs>>

\* One pass of do { fscanf; num_passcodes_tried++ } while (passcode != starting_passcode).
\* The count is kept up to MaxTried, which stands for every larger count: a
\* scan that has run off the end of the file keeps passing here for ever.
Scan ==
    /\ pc = "scan"
    /\ LET r == FscanfPinlist(pos, passcode) IN
         /\ passcode' = r.value
         /\ pos' = r.pos
         /\ eof' = r.eof
         /\ pc' = IF r.value # starting_passcode THEN "scan" ELSE "loop"
    /\ num_passcodes_tried' = IF num_passcodes_tried < MaxTried
                              THEN num_passcodes_tried + 1 ELSE MaxTried
    /\ UNCHANGED <<card, attempt_limit_no_timeouts, starting_passcode, attempts,
                   consecutive_attempts, timeout_seconds, sendst, outs, obs>>


\* C17 mutant: the loop enters the attempt whatever tud_mounted() returned
LoopHead_IgnoresMounted ==
    /\ pc = "loop"
    /\ \E mounted \in BOOLEAN :
          /\ pc' = IF eof THEN "done" ELSE "send"
          /\ polled_ready' = (~eof /\ mounted)
    /\ UNCHANGED <<card, attempt_limit_no_timeouts, locals, sendst, outs, sent,
                   boot_len, run, completed, cooldown_ms, prev_cooldown_ms,
                   delay, burst, last_burst>>

\* while (!feof(pinlist)) and if (tud_mounted())
LoopHead ==
    /\ pc = "loop"
    /\ \E mounted \in BOOLEAN :
          /\ pc' = IF eof THEN "done" ELSE IF mounted THEN "send" ELSE "blink"
          /\ polled_ready' = (~eof /\ mounted)
    /\ UNCHANGED <<card, attempt_limit_no_timeouts, locals, sendst, outs, sent,
                   boot_len, run, completed, cooldown_ms, prev_cooldown_ms,
                   delay, burst, last_burst>>

\* send_passcode up to write_line: the digits, the log line, the append.
\* fopen(path, "a") creates the file; it fails when the card refuses it.
SendLog ==
    /\ pc = "send"
    /\ digits' = PasscodeDigits(passcode)
    /\ sent' = Append(sent, passcode)
    /\ kstep' = 0
    /\ \E ok \in BOOLEAN :
         /\ write_ok' = ok
         /\ IF ok
            THEN /\ logf' = Append(logf, LogLine(digits'))
                 /\ log_exists' = TRUE
            ELSE UNCHANGED <<logf, log_exists>>
    /\ pc' = "keys"
    /\ UNCHANGED <<dict, dict_nl, dict_exists, attempt_limit_no_timeouts, locals,
                   report_ok, outs, boot_len, run, completed, cooldown_ms,
                   prev_cooldown_ms, delay, burst, last_burst, polled_ready>>

\* One tud_hid_keyboard_report of send_passcode (and the delay behind it).
\* The stack may refuse the report (it returns false); send_passcode does
\* not look at the result.
KeyReport ==
    /\ pc = "keys"
    /\ events' = Append(events, ReportAt(digits, kstep))
    /\ report_ok' \in BOOLEAN
    /\ kstep' = kstep + 1
    /\ pc' = IF kstep + 1 = ReportsPerPasscode THEN "next" ELSE "keys"
    /\ UNCHANGED <<card, attempt_limit_no_timeouts, locals, digits, write_ok,
                   led, blink, sleep_ms, obs>>

\* fscanf of the next passcode, the counters, and the choice of the delay
AfterSend ==
    /\ pc = "next"
    /\ LET r == FscanfPinlist(pos, passcode)
           branch == PacerBranch(attempts, consecutive_attempts,
                                 attempt_limit_no_timeouts)
       IN  /\ passcode' = r.value
           /\ pos' = r.pos
           /\ eof' = r.eof
           /\ consecutive_attempts' = consecutive_attempts + 1
           /\ \E o \in PacerOutcomes(timeout_seconds, branch) :
                /\ Pace(branch, o)
                /\ pc' = IF o.trap THEN "aborted"
                         ELSE IF branch = "grace" THEN "grace" ELSE "timeout"
    /\ report_ok' = TRUE
    /\ UNCHANGED <<card, attempt_limit_no_timeouts, starting_passcode,
                   num_passcodes_tried, digits, kstep, write_ok, led, blink,
                   events, sent, boot_len, run, polled_ready>>

\* The one second grace delay ends; continue
GraceEnd ==
    /\ pc = "grace"
    /\ pc' = "loop"
    /\ polled_ready' = FALSE
    /\ UNCHANGED <<card, attempt_limit_no_timeouts, locals, sendst, outs, sent,
                   boot_len, run, completed, cooldown_ms, prev_cooldown_ms,
                   delay, burst, last_burst>>

\* The full timeout ends; consecutive_attempts = 0
TimeoutEnd ==
    /\ pc = "timeout"
    /\ consecutive_attempts' = 0
    /\ pc' = "blink"
    /\ polled_ready' = FALSE
    /\ UNCHANGED <<card, attempt_limit_no_timeouts, starting_passcode, passcode,
                   num_passcodes_tried, pos, eof, attempts, timeout_seconds,
                   sendst, outs, sent, boot_len, run, completed, cooldown_ms,
                   prev_cooldown_ms, delay, burst, last_burst>>

\* The LED blink at the bottom of the loop
Heartbeat ==
    /\ pc = "blink"
    /\ led' = 0
    /\ pc' = "loop"
    /\ UNCHANGED <<card, attempt_limit_no_timeouts, locals, sendst, blink,
                   sleep_ms, events, obs>>

\* The completion signal: three blinks ...
DoneBlink ==
    /\ pc = "done"
    /\ blink < 3
    /\ blink' = blink + 1
    /\ led' = 0
    /\ UNCHANGED <<card, attempt_limit_no_timeouts, pc, locals, sendst,
                   sleep_ms, events, obs>>

\* C8 mutant: behind the pause control falls back into the attempt loop
DonePause_BackToLoop ==
    /\ pc = "done"
    /\ blink = 3
    /\ blink' = 0
    /\ pc' = "loop"
    /\ UNCHANGED <<card, attempt_limit_no_timeouts, locals, sendst, led,
                   sleep_ms, events, obs>>

\* ... and the pause of two seconds, forever
DonePause ==
    /\ pc = "done"
    /\ blink = 3
    /\ blink' = 0
    /\ UNCHANGED <<card, attempt_limit_no_timeouts, pc, locals, sendst, led,
                   sleep_ms, events, obs>>

\* Power is lost and restored: app_main starts over, the card keeps its files
PowerLoss ==
    /\ run < MaxRestarts
    /\ pc # "boot"
    /\ run' = run + 1
    /\ boot_len' = Len(logf)
    /\ pc' = "boot"
    /\ starting_passcode' = 0
    /\ passcode' = 0
    /\ num_passcodes_tried' = 0
    /\ pos' = 0
    /\ eof' = FALSE
    /\ attempts' = 0
    /\ consecutive_attempts' = 0
    /\ timeout_seconds' = base_timeout + leeway_secs
    /\ digits' = [i \in 0..(passcode_len - 1) |-> 0]
    /\ kstep' = 0
    /\ write_ok' = TRUE
    /\ report_ok' = TRUE
    /\ led' = 1
    /\ blink' = 0
    /\ sleep_ms' = 0
    /\ events' = <<>>
    /\ sent' = <<>>
    /\ completed' = 0
    /\ cooldown_ms' = 0
    /\ prev_cooldown_ms' = 0
    /\ delay' = "none"
    /\ burst' = 0
    /\ last_burst' = 0
    /\ polled_ready' = FALSE
    /\ UNCHANGED <<card, attempt_limit_no_timeouts>>

Run ==
    \/ BootReadLog
    \/ OpenPinlist
    \/ Scan
    \/ LoopHead
    \/ SendLog
    \/ KeyReport
    \/ AfterSend
    \/ GraceEnd
    \/ TimeoutEnd
    \/ Heartbeat
    \/ DoneBlink
    \/ DonePause

Next == Run \/ PowerLoss


\* C15 mutant: the pacer without `consecutive_attempts = 0` after the timeout
PacerStep_KeepsCount ==
    /\ pc = "pacer"
    /\ completed < MaxPacerAttempts
    /\ LET branch == PacerBranch(attempts, consecutive_attempts,
                                 attempt_limit_no_timeouts)
       IN  \E o \in PacerOutcomes(timeout_seconds, branch) :
                /\ Pace(branch, o)
                /\ pc' = IF o.trap THEN "aborted" ELSE "pacer"
                /\ consecutive_attempts' = consecutive_attempts + 1
    /\ UNCHANGED <<card, attempt_limit_no_timeouts, starting_passcode,
                   passcode, num_passcodes_tried, pos, eof, sendst, led, blink,
                   events, sent, boot_len, run, polled_ready>>

\* One loop pass as the pacer sees it: the counters, the delay and, behind a
\* full timeout, consecutive_attempts = 0
PacerStep ==
    /\ pc = "pacer"
    /\ completed < MaxPacerAttempts
    /\ LET branch == PacerBranch(attempts, consecutive_attempts,
                                 attempt_limit_no_timeouts)
       IN  \E o \in PacerOutcomes(timeout_seconds, branch) :
                /\ Pace(branch, o)
                /\ pc' = IF o.trap THEN "aborted" ELSE "pacer"
                /\ consecutive_attempts' =
                      IF branch = "grace" \/ o.trap THEN consecutive_attempts + 1
                      ELSE 0
    /\ UNCHANGED <<card, attempt_limit_no_timeouts, starting_passcode,
                   passcode, num_passcodes_tried, pos, eof, sendst, led, blink,
                   events, sent, boot_len, run, polled_ready>>

\* Runs interrupted by power losses
Spec == Init /\ [][Next]_vars

\* A single run, never interrupted
SpecRun == Init /\ [][Run]_vars

\* A single run in which every delay ends and every step that can be taken
\* is taken, and in which tud_mounted() does not return false for ever
DevicePollReady == LoopHead /\ polled_ready'

SpecLive == Init /\ [][Run]_vars /\ WF_vars(Run) /\ SF_vars(DevicePollReady)

\* Every 4-digit passcode as the resume point of a one-line dictionary: the
\* run sends exactly that passcode
MaxPasscode == 10 * 10 * 10 * 10 - 1

InitEmit ==
    /\ \E c \in 0..MaxPasscode :
         /\ dict = <<c>>
         /\ logf = <<LogLine(PasscodeDigits(c))>>
    /\ dict_exists = TRUE
    /\ dict_nl = TRUE
    /\ log_exists = TRUE
    /\ attempt_limit_no_timeouts \in 1..MaxFastPath
    /\ boot_len = Len(logf)
    /\ run = 0
    /\ pc = "boot"
    /\ PowerUp

SpecEmit == InitEmit /\ [][Run]_vars

\* The pacer alone, over a run of up to MaxPacerAttempts attempts
InitPacer ==
    /\ dict = <<>>
    /\ dict_exists = TRUE
    /\ dict_nl = FALSE
    /\ logf = <<>>
    /\ log_exists = FALSE
    /\ attempt_limit_no_timeouts \in 1..MaxPacerFastPath
    /\ boot_len = 0
    /\ run = 0
    /\ pc = "pacer"
    /\ PowerUp

SpecPacer == InitPacer /\ [][PacerStep]_vars

\* Runs and restarts over the complete list 0000, 0001, ... in ascending
\* order, long enough for a position to lie between two others
InitCrash ==
    /\ dict = [i \in 1..(MaxCandidate + 1) |-> i - 1]
    /\ dict_exists = TRUE
    /\ dict_nl \in BOOLEAN
    /\ logf \in SeqsUpTo(InitLines, MaxInitLog)
    /\ log_exists \in BOOLEAN
    /\ (logf # <<>> => log_exists)
    /\ attempt_limit_no_timeouts \in 1..MaxFastPath
    /\ boot_len = Len(logf)
    /\ run = 0
    /\ pc = "boot"
    /\ PowerUp

SpecCrash == InitCrash /\ [][Next]_vars

----------------------------------------------------------------------------
\* Vocabulary of the properties

\* The zero-padded 4-digit text of a candidate
Pad4(c) == <<c \div 1000, (c \div 100) % 10, (c \div 10) % 10, c % 10>>

\* The value a log line stands for
LineValue(l) == l[1] * 1000 + l[2] * 100 + l[3] * 10 + l[4]

Tokens == {dict[i] : i \in 1..Len(dict)}

DistinctTokens == \A i, j \in 1..Len(dict) : dict[i] = dict[j] => i = j

\* Position of value v in the dictionary, 0 when it does not occur
PositionOf(v) ==
    IF v \in Tokens THEN CHOOSE i \in 1..Len(dict) : dict[i] = v ELSE 0

\* The log had entries when this run started, and its last entry then
Resumed == boot_len > 0
ResumeTarget == LineValue(logf[boot_len])

\* Values appended to the log by this run, in order
Appended == [i \in 1..(Len(logf) - boot_len) |-> LineValue(logf[boot_len + i])]

\* Number of send_passcode calls of this run that issued a key event
EmittingSends == (Len(events) + (ReportsPerPasscode - 1)) \div ReportsPerPasscode

----------------------------------------------------------------------------
\* C1 (as claimed; the code re-sends the resume point): in a run that starts
\* from a log whose last entry is dict[k], k < Len(dict), the first candidate
\* appended and emitted is dict[k+1], and none of dict[1..k] is appended to
\* the log or emitted again.
C1_ResumeSkipsLogged ==
    (Resumed /\ DistinctTokens /\ PositionOf(ResumeTarget) \in 1..(Len(dict) - 1)) =>
        LET k == PositionOf(ResumeTarget)
            done == {dict[j] : j \in 1..k}
        IN  /\ \A i \in 1..Len(Appended) : Appended[i] \notin done
            /\ \A i \in 1..EmittingSends : sent[i] \notin done
            /\ (Len(Appended) > 0 => Appended[1] = dict[k + 1])
            /\ (EmittingSends > 0 => sent[1] = dict[k + 1])

\* C2 (as claimed; fails on the code): an uninterrupted run that started with
\* an empty log and has reached the completion signal has appended exactly
\* the dictionary, each candidate once and in order.
C2_OrderPreserved ==
    (run = 0 /\ boot_len = 0 /\ pc = "done") =>
        logf = [i \in 1..Len(dict) |-> Pad4(dict[i])]

\* C3 (as claimed; fails on the code): when the last log entry does not occur
\* in the dictionary, the start-up scan stops once the dictionary has ended:
\* the run is halted then, with nothing appended and no key event issued.
C3_ResumeTargetNotFoundHalts ==
    (Resumed /\ dict # <<>> /\ ResumeTarget \notin Tokens
        /\ num_passcodes_tried > Len(dict)) =>
        (pc = "returned" /\ Len(logf) = boot_len /\ events = <<>>)

\* C4 (as claimed; fails on the code when the append fails, see C9): once a
\* key event of the candidate being sent has been issued, that candidate is
\* the last entry of the log, appended by this send.
C4_LogBeforeEmit ==
    (pc = "keys" /\ kstep > 0) =>
        /\ Len(logf) = boot_len + Len(sent)
        /\ Last(logf) = Pad4(Last(sent))

\* C9 (as claimed; fails on the code): after a failed append of a candidate
\* no key event of it is issued and the dictionary is not read further: the
\* run is still at the failed write or halted.
C9_FailedAppendIsFatal ==
    ~write_ok => (kstep = 0 /\ pc \in {"keys", "returned"})

\* C10 (as claimed; fails on the code): a run that starts with no log entry
\* discards no candidate during start-up and attempts dict[1] first.
C10_EmptyLogStartsAtFirst ==
    (boot_len = 0 /\ dict_exists) =>
        /\ (sent = <<>> => pos <= 1)
        /\ (sent # <<>> => sent[1] = dict[1])

\* t = (base_timeout + leeway_secs) * 2^k, stated without leaving 32 bits
RECURSIVE IsBaseDoubled(_, _)
IsBaseDoubled(t, k) ==
    IF k = 0 THEN t = base_timeout + leeway_secs
    ELSE t > 0 /\ t % 2 = 0 /\ IsBaseDoubled(t \div 2, k - 1)

\* C5 (as claimed; fails on the code): the milliseconds of a full cooldown are
\* never fewer than those of the full cooldown before it in the same run.
C5_CooldownMonotone == prev_cooldown_ms <= cooldown_ms

\* C6 (as claimed; fails on the code once the doubling overflows, see C5):
\* after N completed attempts the counter of attempts since the last doubling
\* is N mod 200 and timeout_seconds is 965 * 2^(N div 200), whatever
\* attempt_limit_no_timeouts is.
C6_DoublingCadence ==
    /\ attempts = completed % attempt_limit_timeout_doubled
    /\ IsBaseDoubled(timeout_seconds, completed \div attempt_limit_timeout_doubled)

\* The key of each digit, by the USB HID usage table (keys 1..9, then 0)
DigitKey == <<39, 30, 31, 32, 33, 34, 35, 36, 37, 38>>

ExpectedReports(c) ==
    <<DigitKey[(c \div 1000) + 1], 0, DigitKey[((c \div 100) % 10) + 1], 0,
      DigitKey[((c \div 10) % 10) + 1], 0, DigitKey[(c % 10) + 1], 0, 40, 0>>

\* C7: the key events of a run are, send by send, the ten reports press(d3),
\* release, press(d2), release, press(d1), release, press(d0), release,
\* press(ENTER), release of the zero-padded digits of the candidate sent;
\* nothing else is issued, and a send that has returned issued all ten.
C7_EmissionShape ==
    /\ Len(events) <= ReportsPerPasscode * Len(sent)
    /\ \A j \in 1..Len(sent) :
         LET from == ReportsPerPasscode * (j - 1)
             n == IF j < Len(sent) \/ pc # "keys" THEN ReportsPerPasscode ELSE kstep
         IN  /\ Len(events) >= from + n
             /\ SubSeq(events, from + 1, from + n) = SubSeq(ExpectedReports(sent[j]), 1, n)

\* C7 witness: 0042 has been sent in full
C7_Sent0042 == sent = <<42>> /\ events = <<39, 0, 39, 0, 33, 0, 31, 0, 40, 0>>

\* C8: once the completion signal is reached the run stays there: no step
\* appends to the log, issues a key event, reads the dictionary or touches
\* the pacer.
C8_ExhaustedIsTerminal ==
    [][pc = "done" =>
        /\ pc' = "done"
        /\ UNCHANGED <<logf, log_exists, events, sent, pos, passcode, attempts,
                       consecutive_attempts, timeout_seconds, completed, sleep_ms>>]_vars

\* C8 witness: the completion signal is running after two attempts
C8_SignallingAfterAttempts == pc = "done" /\ blink = 2 /\ Len(sent) = 2 /\ Len(logf) = 2

-----------------------------------------------------------------------------
\* C11: for every passcode c of 0..9999, read_last_passcode on a log whose
\* last line send_passcode(c) wrote yields c again, leading zeros included,
\* and a write_line that returns ESP_OK adds exactly one line to the log,
\* the four zero-padded decimal digits of c (a write_line that fails adds
\* nothing).
C11_LogRoundTrip ==
    /\ [](pc # "boot" => starting_passcode = dict[1])
    /\ [][pc = "send" =>
            IF write_ok' THEN logf' = Append(logf, Pad4(passcode))
            ELSE logf' = logf]_vars

\* C11 witness: 0007 was read back as 7 and appended again as 0007
C11_Wrote0007ReadBack ==
    /\ starting_passcode = 7
    /\ sent = <<7>>
    /\ logf = <<(<<0, 0, 0, 7>>), (<<0, 0, 0, 7>>)>>

-----------------------------------------------------------------------------
\* C12 (as claimed; send_passcode never looks at what the report call
\* returned): once tud_hid_keyboard_report has refused a report, the next
\* step issues no further report, the program goes back to polling
\* tud_mounted() first.
C12_RejectedReportStopsEmission ==
    [][(pc = "keys" /\ ~report_ok) => (events' = events /\ pc' # "keys")]_vars

-----------------------------------------------------------------------------
\* C13 (as claimed; an append that fails leaves a gap, see C9): over runs
\* and restarts the log only ever grows by one line at its end, and the new
\* line holds the dictionary position right after that of the line before
\* it, or the same position when it is the first line written since a
\* restart.
C13_LogOrderAcrossRestarts ==
    [][logf' # logf =>
         /\ Len(logf') = Len(logf) + 1
         /\ SubSeq(logf', 1, Len(logf)) = logf
         /\ logf # <<>> =>
              LET a == PositionOf(LineValue(Last(logf)))
                  b == PositionOf(LineValue(Last(logf')))
              IN  /\ a >= 1
                  /\ \/ b = a + 1
                     \/ b = a /\ Len(logf) = boot_len]_vars

-----------------------------------------------------------------------------
\* C14: with attempt_limit_no_timeouts = 1 the grace delay is never taken:
\* consecutive_attempts is 1 whenever the pacer has chosen its delay, that
\* delay is the full timeout after every attempt, and the counter is 0
\* again everywhere else.
C14_NoGraceAtLimitOne ==
    attempt_limit_no_timeouts = 1 =>
        /\ pc # "grace"
        /\ delay # "grace"
        /\ (pc = "timeout" => consecutive_attempts = 1 /\ delay = "timeout")
        /\ (pc # "timeout" => consecutive_attempts = 0)

\* C14 witness: the second attempt in a row is in its full timeout
C14_SecondAttemptInTimeout ==
    /\ attempt_limit_no_timeouts = 1
    /\ pc = "timeout"
    /\ completed = 2
    /\ sleep_ms = 965000

-----------------------------------------------------------------------------
\* C15: for every limit F = attempt_limit_no_timeouts, a full timeout closes
\* a burst of exactly F attempts, or of at most F attempts when it is the
\* timeout of a doubling; the attempts before the last of a burst take the
\* grace delay; consecutive_attempts counts the attempts since the last
\* full timeout, is 0 after every full timeout and within 0..F-1 when the
\* next attempt begins.
C15_BurstSize ==
    pc = "pacer" =>
        /\ consecutive_attempts = burst
        /\ burst \in 0..(attempt_limit_no_timeouts - 1)
        /\ (delay = "timeout" =>
                last_burst = attempt_limit_no_timeouts /\ consecutive_attempts = 0)
        /\ (delay = "double" =>
                last_burst \in 1..attempt_limit_no_timeouts /\ consecutive_attempts = 0)
        /\ (delay = "grace" => burst >= 1)

\* C15 witness: with F = 3 the 200th attempt doubles the timeout and closes
\* a burst of two
C15_BurstCutByDoubling ==
    /\ attempt_limit_no_timeouts = 3
    /\ completed = 200
    /\ delay = "double"
    /\ last_burst = 2

-----------------------------------------------------------------------------
\* C16 (as claimed; from the 12th doubling on the millisecond count of the
\* timeout overflows, see C5): the attempt that doubles timeout_seconds is
\* followed by the full timeout of the doubled timeout_seconds, twice the
\* full timeout before it, never by the grace delay, and leaves
\* consecutive_attempts at 0.
C16_DoublingPaysDoubledTimeout ==
    (pc = "pacer" /\ delay = "double") =>
        /\ consecutive_attempts = 0
        /\ sleep_ms = cooldown_ms
        /\ sleep_ms \div 1000 = timeout_seconds /\ sleep_ms % 1000 = 0
        /\ sleep_ms \div 2 = prev_cooldown_ms /\ sleep_ms % 2 = 0

-----------------------------------------------------------------------------
\* C17: a step that appends to the log, issues a key report, reads the
\* next passcode inside the loop or counts an attempt is taken only after
\* tud_mounted() returned true since the last pacer delay ended; a pass of
\* the loop in which tud_mounted() returns false changes none of the
\* dictionary position, the log, attempts, consecutive_attempts and
\* timeout_seconds and issues no key report.
C17_ReadinessGating ==
    [][/\ (pc = "loop" /\ pc' # "done" /\ ~polled_ready') =>
            UNCHANGED <<pos, passcode, eof, logf, attempts, consecutive_attempts,
                        timeout_seconds, events>>
       /\ (\/ logf' # logf
           \/ events' # events
           \/ sent' # sent
           \/ attempts' # attempts
           \/ consecutive_attempts' > consecutive_attempts
           \/ timeout_seconds' # timeout_seconds
           \/ pos' # pos /\ pc # "scan") => polled_ready]_vars

\* C17 witness: the first attempt is begun after a pass that found the device
\* not mounted (heartbeat only) and a later one that found it mounted
C17_AttemptAfterUnmountedPass ==
    /\ pc = "keys"
    /\ polled_ready
    /\ led = 0
    /\ sent = <<1>>
    /\ Len(events) = 1

-----------------------------------------------------------------------------
\* C18 (as claimed; with an empty log the scan looks for passcode 0, see
\* C10): with PIN4.TXT present and a log that is empty or whose last entry
\* occurs in PIN4.TXT, a run in which the device is mounted again and again
\* and every delay ends reaches the final signalling loop.
C18_ReachesExhausted ==
    (dict_exists /\ (boot_len = 0 \/ ResumeTarget \in Tokens)) ~> (pc = "done")

-----------------------------------------------------------------------------
\* C19 (as claimed; the code sends the resume point again, see C1): a run
\* started with a log whose last entry is the last passcode of PIN4.TXT
\* appends nothing to the log and issues no key report on its way to the
\* final signalling loop.
C19_RestartAfterCompletion ==
    (/\ dict_exists
     /\ dict # <<>>
     /\ DistinctTokens
     /\ Resumed
     /\ ResumeTarget = Last(dict)) =>
        /\ Len(logf) = boot_len
        /\ events = <<>>

====
